---- MODULE Spec2Model ----
(***************************************************************************)
(* Model of the channel key tree of ectf25_design (ChannelKeyDerivation):  *)
(* node covers, the covering-node search, key derivation along the tree    *)
(* and the decoder-side key lookup from a cover.                           *)
(*                                                                         *)
(* The tree height of the program is 64; the model keeps the code's        *)
(* arithmetic and runs it on trees of height 1..MaxHeight.  MD5 digests    *)
(* are symbolic (a digest is named by the root and the chain of suffixes   *)
(* hashed on the way to it); whether a digest happens to be valid UTF-8    *)
(* is fixed by the environment at start (binaryDigests).                   *)
(***************************************************************************)
EXTENDS Integers, Sequences, FiniteSets, TLC

\* Tallest tree modelled (the program's height is 64).
MaxHeight == 3
\* Longest series of get_covering_nodes calls made on a pair of objects.
MaxCalls == 3

VARIABLES
    deriv,          \* the ChannelKeyDerivation object: [root, height]
    binaryDigests,  \* the MD5 digests of deriv's tree that are not valid UTF-8
    call,           \* the last call made on deriv, with its arguments
    ret,            \* what that call returned or raised
    pair,           \* two ChannelKeyDerivation objects of the same height
    pairCall,       \* the range both objects of pair are asked to cover
    pairRet,        \* per object of pair: what its get_covering_nodes calls returned
    loop,           \* a get_covering_nodes call in progress: its range and locals
    given,          \* the channel list as the caller of gen_secrets built it
    channels,       \* that list object now (gen_secrets is handed the object)
    secrets,        \* the secrets generated by the last gen_secrets call
    decoder         \* the decoder: its subscriptions and last timestamps

vars == <<deriv, binaryDigests, call, ret, pair, pairCall, pairRet, loop,
          given, channels, secrets, decoder>>

\* The variables of the key tree.
treeVars == <<deriv, binaryDigests, call, ret, pair, pairCall, pairRet, loop>>

\* The variables of the secrets generation.
secretsVars == <<given, channels, secrets>>

----------------------------------------------------------------------------
\* Results of a call: a returned value or a raised exception.
Ok(v) == [ok |-> TRUE, val |-> v]
Raise(e) == [ok |-> FALSE, err |-> e]

\* Channel roots: b"1234" (the tests' root, text) and b"\xff\x10" (not UTF-8).
RootText == <<49, 50, 51, 52>>
RootBinary == <<255, 16>>
Roots == {RootText, RootBinary}

\* bytes.decode(): TRUE iff the byte string is well-formed UTF-8.
RECURSIVE Utf8Valid(_)
Utf8Valid(b) ==
    LET n == Len(b)
        Cont(i) == i <= n /\ b[i] >= 128 /\ b[i] <= 191
        Rest(k) == Utf8Valid(SubSeq(b, k, n))
    IN  IF n = 0 THEN TRUE
        ELSE IF b[1] <= 127 THEN Rest(2)
        ELSE IF b[1] >= 194 /\ b[1] <= 223 THEN Cont(2) /\ Rest(3)
        ELSE IF b[1] = 224 THEN Cont(2) /\ b[2] >= 160 /\ Cont(3) /\ Rest(4)
        ELSE IF b[1] = 237 THEN Cont(2) /\ b[2] <= 159 /\ Cont(3) /\ Rest(4)
        ELSE IF b[1] >= 225 /\ b[1] <= 239 THEN Cont(2) /\ Cont(3) /\ Rest(4)
        ELSE IF b[1] = 240
            THEN Cont(2) /\ b[2] >= 144 /\ Cont(3) /\ Cont(4) /\ Rest(5)
        ELSE IF b[1] >= 241 /\ b[1] <= 243
            THEN Cont(2) /\ Cont(3) /\ Cont(4) /\ Rest(5)
        ELSE IF b[1] = 244
            THEN Cont(2) /\ b[2] <= 143 /\ Cont(3) /\ Cont(4) /\ Rest(5)
        ELSE FALSE

\* A key is the channel root (path <<>>) or an MD5 digest: MD5 applied to
\* (previous key + b"L") or (previous key + b"R"), starting from the root.
RootKey(root) == [root |-> root, path |-> <<>>]

get_left_subkey(key) == [root |-> key.root, path |-> Append(key.path, "L")]

get_right_subkey(key) == [root |-> key.root, path |-> Append(key.path, "R")]

\* All L/R suffix chains of length 1..n.
RECURSIVE Paths(_)
Paths(n) ==
    IF n = 0 THEN {<<>>}
    ELSE LET P == Paths(n - 1)
         IN  P \cup {Append(p, "L") : p \in P} \cup {Append(p, "R") : p \in P}

\* The digests of the tree of height h under root (every node but the root).
Digests(root, h) == {[root |-> root, path |-> p] : p \in Paths(h) \ {<<>>}}

\* key.decode() succeeds.
Decodes(key) ==
    IF key.path = <<>> THEN Utf8Valid(key.root) ELSE key \notin binaryDigests

----------------------------------------------------------------------------
\* int.bit_length()
RECURSIVE bit_length(_)
bit_length(n) == IF n = 0 THEN 0 ELSE 1 + bit_length(n \div 2)

\* Mutant of get_channel_node_cover: the level index is forgotten
\* (skipped = span * node_num).
get_channel_node_cover_no_level_index(self, node_num) ==
    LET d == bit_length(node_num) - 1
        span == 2 ^ (self.height - d)
        skipped == span * node_num
    IN  <<skipped, skipped + span - 1>>

get_channel_node_cover(self, node_num) ==
    LET d == bit_length(node_num) - 1
        level_index == node_num - 2 ^ d
    IN  IF d >= 0 /\ d <= self.height
        THEN LET span == 2 ^ (self.height - d)
                 skipped == span * level_index
             IN  <<skipped, skipped + span - 1>>
        ELSE IF d < 0
        \* node 0: d = -1 and 2**d is the float 0.5, so level_index = -0.5,
        \* span = 2**(height + 1) and skipped = -(2**height)
        THEN LET span == 2 ^ (self.height + 1)
                 skipped == -(span \div 2)
             IN  <<skipped, skipped + span - 1>>
        \* a node below the leaves: span = 2**(height - d) is a float below 1
        \* and the bounds are fractions.  They are only ever compared with
        \* integer timestamps, so the model keeps the lower bound rounded up
        \* and the upper bound rounded down.
        ELSE LET shrink == 2 ^ (d - self.height)
             IN  <<-((-level_index) \div shrink), ((level_index + 1) \div shrink) - 1>>

Min(a, b) == IF a <= b THEN a ELSE b
Max(a, b) == IF a >= b THEN a ELSE b

RECURSIVE FoldCover(_, _, _)
FoldCover(self, cover, nodes) ==
    IF nodes = <<>> THEN cover
    ELSE LET node_cover == get_channel_node_cover(self, Head(nodes))
         IN  FoldCover(self,
                       <<Min(cover[1], node_cover[1]), Max(cover[2], node_cover[2])>>,
                       Tail(nodes))

\* Mutant of get_channel_nodes_cover: the list is taken to be ordered from
\* left to right (lower bound of the first node, upper bound of the last).
get_channel_nodes_cover_first_last(self, nodes) ==
    IF Len(nodes) = 0
    THEN Raise("Cannot determine cover for empty list of nodes!")
    ELSE Ok(<<get_channel_node_cover(self, nodes[1])[1],
              get_channel_node_cover(self, nodes[Len(nodes)])[2]>>)

get_channel_nodes_cover(self, nodes) ==
    IF Len(nodes) = 0
    THEN Raise("Cannot determine cover for empty list of nodes!")
    ELSE Ok(FoldCover(self, get_channel_node_cover(self, Head(nodes)), Tail(nodes)))

----------------------------------------------------------------------------
\* get_covering_nodes and its helpers

\* 2**64 - 1 in the range assertion: the largest timestamp of the tallest tree.
MaxTimestamp == 2 ^ MaxHeight - 1

\* Mutant of get_parent: the parent in a numbering that starts at 0.
get_parent_zero_based(x) == (x - 1) \div 2

get_parent(x) == x \div 2

get_left_child(x) == x * 2

in_range(r1, r2) == r1[1] >= r2[1] /\ r1[2] <= r2[2]

\* Mutant of RangeAssert: the order of start and end is not checked.
RangeAssertNoOrder(start, end) ==
    /\ start >= 0
    /\ start <= MaxTimestamp
    /\ end >= 0
    /\ end <= MaxTimestamp

RangeAssert(start, end) ==
    /\ start >= 0
    /\ start <= MaxTimestamp
    /\ end >= 0
    /\ end <= MaxTimestamp
    /\ start <= end

\* Mutant of LoopExit: the loop stops as soon as a node was emitted.
LoopExitAnyNode(self, nodes, decode_range) == Len(nodes) > 0

\* The negated condition of the outer while loop.
LoopExit(self, nodes, decode_range) ==
    /\ Len(nodes) > 0
    /\ decode_range = get_channel_nodes_cover(self, nodes).val

\* Mutant of Ascend: an "if" for the "while", one step up at most.
AscendOnce(self, parent, decode_range) ==
    IF in_range(get_channel_node_cover(self, get_parent(parent)), decode_range)
    THEN get_parent(parent)
    ELSE parent

\* Mutant of Ascend: no climbing at all.
AscendNever(self, parent, decode_range) == parent

\* The inner loop of the ascending branch: climb while the parent's cover is
\* inside the range.
RECURSIVE Ascend(_, _, _)
Ascend(self, parent, decode_range) ==
    IF in_range(get_channel_node_cover(self, get_parent(parent)), decode_range)
    THEN Ascend(self, get_parent(parent), decode_range)
    ELSE parent

\* Mutant of HitRoot: the children of the root count as the root.
HitRootOrChild(parent) == parent <= 3

\* "We hit the root node, cover everything"
HitRoot(parent) == parent = 1

\* Mutant of DescendLeft: no descent, the left child is taken as it is.
DescendLeftNot(self, iter_node, decode_range) == iter_node

\* The inner loop of the descending branch: go to the left child until the
\* cover is inside the range.
RECURSIVE DescendLeft(_, _, _)
DescendLeft(self, iter_node, decode_range) ==
    IF ~ in_range(get_channel_node_cover(self, iter_node), decode_range)
    THEN DescendLeft(self, get_left_child(iter_node), decode_range)
    ELSE iter_node

\* Mutant of LoopStart: the leaves are numbered from 2^height + 1.
LoopStartNextLeaf(self, start) ==
    [nodes |-> <<>>, iter_node |-> start + 2 ^ self.height + 1,
     descending |-> FALSE, status |-> "run"]

\* Mutant of LoopStart: the phase flag starts as descending.
LoopStartDescending(self, start) ==
    [nodes |-> <<>>, iter_node |-> start + 2 ^ self.height,
     descending |-> TRUE, status |-> "run"]

\* Loop state: nodes, iter_node, descending, and how the loop stands
\* ("run", "break" after the root was emitted, "assert" after a failed assert).
LoopStart(self, start) ==
    [nodes |-> <<>>, iter_node |-> start + 2 ^ self.height,
     descending |-> FALSE, status |-> "run"]

\* One pass through the body of the outer while loop.
LoopBody(self, st, decode_range) ==
    IF ~ st.descending
    THEN LET parent == Ascend(self, st.iter_node, decode_range)
             nodes == Append(st.nodes, parent)
         IN  IF HitRoot(parent)
             THEN [st EXCEPT !.nodes = nodes, !.status = "break"]
             ELSE [st EXCEPT !.nodes = nodes,
                             !.iter_node = parent + 1,
                             !.descending =
                                 ~ in_range(get_channel_node_cover(self, parent + 1),
                                            decode_range)]
    ELSE IF ~ (get_left_child(st.iter_node) < 2 ^ (self.height + 1))
         THEN [st EXCEPT !.status = "assert"]
         ELSE LET iter_node == DescendLeft(self, get_left_child(st.iter_node),
                                           decode_range)
              IN  [st EXCEPT !.nodes = Append(st.nodes, iter_node),
                              !.iter_node = iter_node + 1]

RECURSIVE RunLoop(_, _, _)
RunLoop(self, st, decode_range) ==
    IF st.status # "run" \/ LoopExit(self, st.nodes, decode_range)
    THEN st
    ELSE RunLoop(self, LoopBody(self, st, decode_range), decode_range)

\* Mutant of get_covering_nodes: the root key is printed first, as
\* get_key_for_node does (print(f"ROOT KEY: {self.root.decode()}")).
get_covering_nodes_printing_root(self, start, end) ==
    IF ~ Utf8Valid(self.root)
    THEN Raise("UnicodeDecodeError")
    ELSE IF ~ RangeAssert(start, end)
    THEN Raise("AssertionError")
    ELSE LET final == RunLoop(self, LoopStart(self, start), <<start, end>>)
         IN  IF final.status = "assert"
             THEN Raise("AssertionError")
             ELSE Ok(final.nodes)

get_covering_nodes(self, start, end) ==
    IF ~ RangeAssert(start, end)
    THEN Raise("AssertionError")
    ELSE LET final == RunLoop(self, LoopStart(self, start), <<start, end>>)
         IN  IF final.status = "assert"
             THEN Raise("AssertionError")
             ELSE Ok(final.nodes)

----------------------------------------------------------------------------
\* Key derivation

\* "Traverse to root": the bits of n below its leading 1, least significant
\* first.
RECURSIVE TraverseToRoot(_)
TraverseToRoot(n) ==
    IF n > 1 THEN <<n % 2>> \o TraverseToRoot(n \div 2) ELSE <<>>

\* traversal[::-1]
RECURSIVE Reverse(_)
Reverse(s) == IF s = <<>> THEN <<>> ELSE Append(Reverse(Tail(s)), Head(s))

ChannelTreeNode(node_num, key) == [node_num |-> node_num, key |-> key]

\* Mutant of DeriveAndPrint: the derivation without the print of each key.
RECURSIVE DeriveNoPrint(_, _)
DeriveNoPrint(curr_key, traversal) ==
    IF traversal = <<>> THEN Ok(curr_key)
    ELSE DeriveNoPrint(IF Head(traversal) = 0
                       THEN get_left_subkey(curr_key)
                       ELSE get_right_subkey(curr_key),
                       Tail(traversal))

\* "Traverse from root, generating subkeys along the way"; each new key is
\* printed with curr_key.decode().
RECURSIVE DeriveAndPrint(_, _)
DeriveAndPrint(curr_key, traversal) ==
    IF traversal = <<>> THEN Ok(curr_key)
    ELSE LET next_key == IF Head(traversal) = 0
                         THEN get_left_subkey(curr_key)
                         ELSE get_right_subkey(curr_key)
         IN  IF ~ Decodes(next_key)
             THEN Raise("UnicodeDecodeError")
             ELSE DeriveAndPrint(next_key, Tail(traversal))

get_key_for_node(self, node_num) ==
    LET traversal == TraverseToRoot(node_num)
    IN  IF ~ Decodes(RootKey(self.root))
        THEN Raise("UnicodeDecodeError")
        ELSE LET k == DeriveAndPrint(RootKey(self.root), Reverse(traversal))
             IN  IF k.ok THEN Ok(ChannelTreeNode(node_num, k.val)) ELSE k

RECURSIVE KeysForNodes(_, _)
KeysForNodes(self, node_numbers) ==
    IF node_numbers = <<>> THEN Ok(<<>>)
    ELSE LET node == get_key_for_node(self, Head(node_numbers))
         IN  IF ~ node.ok THEN node
             ELSE LET rest == KeysForNodes(self, Tail(node_numbers))
                  IN  IF rest.ok THEN Ok(<<node.val>> \o rest.val) ELSE rest

get_channel_keys(self, start, end) ==
    LET node_numbers == get_covering_nodes(self, start, end)
    IN  IF node_numbers.ok THEN KeysForNodes(self, node_numbers.val)
        ELSE node_numbers

\* Mutant of get_frame_key: the key of the next frame.
get_frame_key_next_frame(self, frame_num) ==
    LET node == get_key_for_node(self, frame_num + 1 + 2 ^ self.height)
    IN  IF node.ok THEN Ok(node.val.key) ELSE node

get_frame_key(self, frame_num) ==
    LET node == get_key_for_node(self, frame_num + 2 ^ self.height)
    IN  IF node.ok THEN Ok(node.val.key) ELSE node

\* The search loop of get_frame_key_from_cover: follow the traversal from the
\* root and remember the last listed node met on the way.  closest is
\* [node, idx] or [idx |-> -1] for None.
RECURSIVE FindClosest(_, _, _, _, _)
FindClosest(nodes, traversal, idx, curr_node, closest) ==
    IF idx > Len(traversal) THEN closest
    ELSE LET next_node == IF traversal[idx] = 0
                          THEN curr_node * 2
                          ELSE curr_node * 2 + 1
             found_nodes == SelectSeq(nodes, LAMBDA k : k.node_num = next_node)
         IN  FindClosest(nodes, traversal, idx + 1, next_node,
                         IF Len(found_nodes) > 0
                         THEN [node |-> found_nodes[1], idx |-> idx]
                         ELSE closest)

\* "Derive the key from the closest node found in subscription package"
RECURSIVE DeriveFrom(_, _)
DeriveFrom(curr_key, branches) ==
    IF branches = <<>> THEN curr_key
    ELSE DeriveFrom(IF Head(branches) = 0
                    THEN get_left_subkey(curr_key)
                    ELSE get_right_subkey(curr_key),
                    Tail(branches))

\* Mutant of InitialClosest: without a listed node 1 the first listed node
\* is taken (node_one[0] if len(node_one) else nodes[0]).
InitialClosestOrFirst(nodes) ==
    LET node_one == SelectSeq(nodes, LAMBDA k : k.node_num = 1)
    IN  IF Len(node_one) > 0 THEN [node |-> node_one[1], idx |-> 0]
        ELSE IF Len(nodes) > 0 THEN [node |-> nodes[1], idx |-> 0]
        ELSE [idx |-> -1]

\* The closest node before the search loop: the listed node 1, if any.
InitialClosest(nodes) ==
    LET node_one == SelectSeq(nodes, LAMBDA k : k.node_num = 1)
    IN  IF Len(node_one) > 0 THEN [node |-> node_one[1], idx |-> 0]
        ELSE [idx |-> -1]

\* Mutant of get_frame_key_from_cover: frame numbers outside the tree are
\* refused.
get_frame_key_from_cover_checked(self, nodes, frame_num) ==
    LET node_num == frame_num + 2 ^ self.height
        traversal == Reverse(TraverseToRoot(node_num))
        closest == FindClosest(nodes, traversal, 1, 1, InitialClosest(nodes))
    IN  IF frame_num < 0 \/ frame_num > 2 ^ self.height - 1 \/ closest.idx = -1
        THEN Raise("Could not derive a key from the given nodes")
        ELSE Ok(DeriveFrom(closest.node.key,
                           SubSeq(traversal, closest.idx + 1, Len(traversal))))

get_frame_key_from_cover(self, nodes, frame_num) ==
    LET node_num == frame_num + 2 ^ self.height
        traversal == Reverse(TraverseToRoot(node_num))
        closest == FindClosest(nodes, traversal, 1, 1, InitialClosest(nodes))
    IN  IF closest.idx = -1
        THEN Raise("Could not derive a key from the given nodes")
        ELSE Ok(DeriveFrom(closest.node.key,
                           SubSeq(traversal, closest.idx + 1, Len(traversal))))

----------------------------------------------------------------------------
\* The state machine: an object is constructed, then its methods are called.

\* The environments modelled: which digests of the tree are not valid UTF-8.
\* All of them (what MD5 gives in practice), none of them, or exactly one.
DigestEnvironments(self) ==
    LET D == Digests(self.root, self.height)
    IN  {D, {}} \cup {{d} : d \in D}

Objects == {[root |-> r, height |-> h] : r \in Roots, h \in 1..MaxHeight}

\* Node numbers of the tree, and node 0.
NodeInputs(self) == 0..(2 ^ (self.height + 1) - 1)

\* Timestamps of the tree, one below and one above what the assertion allows.
TimestampInputs(self) == (-1..(2 ^ self.height - 1)) \cup {MaxTimestamp + 1}

\* Frame numbers: the timestamps of the tree, one below and one above.
FrameInputs(self) == -1..(2 ^ self.height)

\* Node lists given to get_channel_nodes_cover: the empty list, the lists of
\* one or two tree nodes, and the lists get_covering_nodes returns.
NodeListInputs(self) ==
    LET N == NodeInputs(self) \ {0}
        T == 0..(2 ^ self.height - 1)
    IN  {<<>>} \cup {<<a>> : a \in N} \cup {<<a, b>> : a \in N, b \in N}
        \cup {get_covering_nodes(self, r[1], r[2]).val :
                 r \in {x \in T \X T : x[1] <= x[2]}}

Init ==
    /\ deriv \in Objects
    /\ binaryDigests \in DigestEnvironments(deriv)
    /\ call = [op |-> "ChannelKeyDerivation"]
    /\ ret = Ok("object")
    /\ pair = <<>>
    /\ pairCall = <<>>
    /\ pairRet = <<>>
    /\ loop = <<>>
    /\ decoder = <<>>
    /\ given = <<>>
    /\ channels = <<>>
    /\ secrets = <<>>

\* The object is immutable and no call leaves anything behind, so a behaviour
\* is the construction followed by one call.
Constructed == call.op = "ChannelKeyDerivation"

GetChannelNodeCover ==
    /\ Constructed
    /\ \E node_num \in NodeInputs(deriv) :
        /\ call' = [op |-> "get_channel_node_cover", node_num |-> node_num]
        /\ ret' = Ok(get_channel_node_cover(deriv, node_num))
    /\ UNCHANGED <<deriv, binaryDigests, pair, pairCall, pairRet, loop, secretsVars, decoder>>

GetChannelNodesCover ==
    /\ Constructed
    /\ \E nodes \in NodeListInputs(deriv) :
        /\ call' = [op |-> "get_channel_nodes_cover", nodes |-> nodes]
        /\ ret' = get_channel_nodes_cover(deriv, nodes)
    /\ UNCHANGED <<deriv, binaryDigests, pair, pairCall, pairRet, loop, secretsVars, decoder>>

GetCoveringNodes ==
    /\ Constructed
    /\ \E start \in TimestampInputs(deriv), end \in TimestampInputs(deriv) :
        /\ call' = [op |-> "get_covering_nodes", start |-> start, end |-> end]
        /\ ret' = get_covering_nodes(deriv, start, end)
    /\ UNCHANGED <<deriv, binaryDigests, pair, pairCall, pairRet, loop, secretsVars, decoder>>

GetKeyForNode ==
    /\ Constructed
    /\ \E node_num \in NodeInputs(deriv) \ {0} :
        /\ call' = [op |-> "get_key_for_node", node_num |-> node_num]
        /\ ret' = get_key_for_node(deriv, node_num)
    /\ UNCHANGED <<deriv, binaryDigests, pair, pairCall, pairRet, loop, secretsVars, decoder>>

GetChannelKeys ==
    /\ Constructed
    /\ \E start \in TimestampInputs(deriv), end \in TimestampInputs(deriv) :
        /\ call' = [op |-> "get_channel_keys", start |-> start, end |-> end]
        /\ ret' = get_channel_keys(deriv, start, end)
    /\ UNCHANGED <<deriv, binaryDigests, pair, pairCall, pairRet, loop, secretsVars, decoder>>

GetFrameKey ==
    /\ Constructed
    /\ \E frame_num \in FrameInputs(deriv) \ {-1, 2 ^ deriv.height} :
        /\ call' = [op |-> "get_frame_key", frame_num |-> frame_num]
        /\ ret' = get_frame_key(deriv, frame_num)
    /\ UNCHANGED <<deriv, binaryDigests, pair, pairCall, pairRet, loop, secretsVars, decoder>>

\* get_frame_key_from_cover(get_channel_keys(start, end), frame_num): the
\* keys of a range are generated and a frame key is looked up in them; an
\* exception of get_channel_keys propagates.  call.keys records whether
\* get_channel_keys returned.
GetFrameKeyFromCover ==
    /\ Constructed
    /\ \E start \in TimestampInputs(deriv), end \in TimestampInputs(deriv),
          frame_num \in FrameInputs(deriv) :
        LET keys == get_channel_keys(deriv, start, end)
        IN  /\ RangeAssert(start, end)
            /\ call' = [op |-> "get_frame_key_from_cover", start |-> start,
                        end |-> end, frame_num |-> frame_num, keys |-> keys.ok]
            /\ ret' = IF keys.ok
                      THEN get_frame_key_from_cover(deriv, keys.val, frame_num)
                      ELSE keys
    /\ UNCHANGED <<deriv, binaryDigests, pair, pairCall, pairRet, loop, secretsVars, decoder>>

Next ==
    \/ GetChannelNodeCover
    \/ GetChannelNodesCover
    \/ GetCoveringNodes
    \/ GetKeyForNode
    \/ GetChannelKeys
    \/ GetFrameKey
    \/ GetFrameKeyFromCover

Spec == Init /\ [][Next]_vars

\* The tree arithmetic alone, in the usual environment (no digest is text).
InitCover ==
    /\ Init
    /\ binaryDigests = Digests(deriv.root, deriv.height)

NextCover ==
    \/ GetChannelNodeCover
    \/ GetChannelNodesCover
    \/ GetCoveringNodes

SpecCover == InitCover /\ [][NextCover]_vars

----------------------------------------------------------------------------
\* Two objects of the same height and different roots are asked, in any order
\* and any number of times up to MaxCalls, to cover the same range.

InitPair ==
    /\ \E h \in 1..MaxHeight :
        /\ pair = <<[root |-> RootText, height |-> h],
                    [root |-> RootBinary, height |-> h]>>
        /\ \E start \in TimestampInputs(pair[1]), end \in TimestampInputs(pair[1]) :
               pairCall = <<start, end>>
    /\ pairRet = <<(<<>>), (<<>>)>>
    /\ deriv = pair[1]
    /\ binaryDigests = Digests(deriv.root, deriv.height)
    /\ call = [op |-> "ChannelKeyDerivation"]
    /\ ret = Ok("object")
    /\ loop = <<>>
    /\ decoder = <<>>
    /\ given = <<>>
    /\ channels = <<>>
    /\ secrets = <<>>

PairGetCoveringNodes ==
    /\ Len(pairRet[1]) + Len(pairRet[2]) < MaxCalls
    /\ \E i \in 1..2 :
        pairRet' = [pairRet EXCEPT ![i] =
                       Append(@, get_covering_nodes(pair[i], pairCall[1], pairCall[2]))]
    /\ UNCHANGED <<deriv, binaryDigests, call, ret, pair, pairCall, loop, secretsVars, decoder>>

NextPair == PairGetCoveringNodes

SpecPair == InitPair /\ [][NextPair]_vars

----------------------------------------------------------------------------
\* One call of get_covering_nodes, pass by pass through its while loop.
\* loop.st holds the locals (nodes, iter_node, descending); loop.pc is
\* "while" at the loop test, "return" after "return nodes" and "raise" after
\* a failed assertion.

InitLoop ==
    /\ deriv \in Objects
    /\ binaryDigests = Digests(deriv.root, deriv.height)
    /\ call = [op |-> "ChannelKeyDerivation"]
    /\ ret = Ok("object")
    /\ pair = <<>>
    /\ pairCall = <<>>
    /\ pairRet = <<>>
    /\ given = <<>>
    /\ channels = <<>>
    /\ secrets = <<>>
    /\ decoder = <<>>
    /\ \E start \in TimestampInputs(deriv), end \in TimestampInputs(deriv) :
        /\ RangeAssert(start, end)
        /\ loop = [decode_range |-> <<start, end>>,
                   st |-> LoopStart(deriv, start),
                   pc |-> "while"]

\* The loop test holds: the body is about to run.
LoopContinues ==
    /\ loop.pc = "while"
    /\ loop.st.status = "run"
    /\ ~ LoopExit(deriv, loop.st.nodes, loop.decode_range)

\* A pass through the ascending branch (if not descending).
LoopAscending ==
    /\ LoopContinues
    /\ ~ loop.st.descending
    /\ loop' = [loop EXCEPT !.st = LoopBody(deriv, loop.st, loop.decode_range)]
    /\ UNCHANGED <<deriv, binaryDigests, call, ret, pair, pairCall, pairRet, secretsVars, decoder>>

\* A pass through the descending branch (else).
LoopDescending ==
    /\ LoopContinues
    /\ loop.st.descending
    /\ loop' = [loop EXCEPT !.st = LoopBody(deriv, loop.st, loop.decode_range)]
    /\ UNCHANGED <<deriv, binaryDigests, call, ret, pair, pairCall, pairRet, secretsVars, decoder>>

\* The loop is left, by its test or by the break, and the nodes are
\* returned; a failed assertion leaves the function instead.
LoopReturn ==
    /\ loop.pc = "while"
    /\ ~ LoopContinues
    /\ loop' = [loop EXCEPT !.pc = IF loop.st.status = "assert"
                                   THEN "raise" ELSE "return"]
    /\ UNCHANGED <<deriv, binaryDigests, call, ret, pair, pairCall, pairRet, secretsVars, decoder>>

NextLoop ==
    \/ LoopAscending
    \/ LoopDescending
    \/ LoopReturn

\* The interpreter keeps executing the call: a step that can be taken is taken.
SpecLoop == InitLoop /\ [][NextLoop]_vars /\ WF_vars(NextLoop)

\* The same call from its first line: any start and end are given, nodes is
\* the empty list (loop.pc = "assert"), and the assertion on the range is
\* evaluated before the loop is entered.
InitEntry ==
    /\ deriv \in Objects
    /\ binaryDigests = Digests(deriv.root, deriv.height)
    /\ call = [op |-> "ChannelKeyDerivation"]
    /\ ret = Ok("object")
    /\ pair = <<>>
    /\ pairCall = <<>>
    /\ pairRet = <<>>
    /\ given = <<>>
    /\ channels = <<>>
    /\ secrets = <<>>
    /\ decoder = <<>>
    /\ \E start \in TimestampInputs(deriv), end \in TimestampInputs(deriv) :
        loop = [decode_range |-> <<start, end>>,
                st |-> [nodes |-> <<>>],
                pc |-> "assert"]

\* The assertion on start and end: the function is left when it fails, and
\* the loop is set up when it holds.
EntryAssert ==
    /\ loop.pc = "assert"
    /\ loop' = IF RangeAssert(loop.decode_range[1], loop.decode_range[2])
               THEN [loop EXCEPT !.st = LoopStart(deriv, loop.decode_range[1]),
                                 !.pc = "while"]
               ELSE [loop EXCEPT !.pc = "raise"]
    /\ UNCHANGED <<deriv, binaryDigests, call, ret, pair, pairCall, pairRet, secretsVars, decoder>>

NextEntry ==
    \/ EntryAssert
    \/ LoopAscending
    \/ LoopDescending
    \/ LoopReturn

SpecEntry == InitEntry /\ [][NextEntry]_vars

----------------------------------------------------------------------------
\* get_frame_key_from_cover on lists of nodes of any origin.

\* A key for node n derived from the root of the tree, and a key that
\* belongs to no node of the tree.
TreeKey(self, n) == DeriveFrom(RootKey(self.root), Reverse(TraverseToRoot(n)))
ForeignKey(n) == RootKey(<<n>>)

\* The nodes a list may hold: node numbers 0..2^(height+1), each with its
\* key of the tree or with a foreign key.
ListedNodes(self) ==
    {ChannelTreeNode(n, TreeKey(self, n)) : n \in 0..(2 ^ (self.height + 1))}
    \cup {ChannelTreeNode(n, ForeignKey(n)) : n \in 0..(2 ^ (self.height + 1))}

\* The lists given: empty, of one node, or of two nodes in either order,
\* duplicates included.
CoverInputs(self) ==
    {<<>>} \cup {<<a>> : a \in ListedNodes(self)}
    \cup {<<a, b>> : a \in ListedNodes(self), b \in ListedNodes(self)}

\* Frame numbers above -2^height: below the tree, of the tree, and as many
\* above it.
FrameLookupInputs(self) == (1 - 2 ^ self.height)..(2 ^ (self.height + 1) - 1)

InitLookup ==
    /\ Init
    /\ deriv.root = RootText
    /\ binaryDigests = Digests(deriv.root, deriv.height)

LookupFrameKey ==
    /\ Constructed
    /\ \E nodes \in CoverInputs(deriv), frame_num \in FrameLookupInputs(deriv) :
        /\ call' = [op |-> "get_frame_key_from_cover", nodes |-> nodes,
                    frame_num |-> frame_num]
        /\ ret' = get_frame_key_from_cover(deriv, nodes, frame_num)
    /\ UNCHANGED <<deriv, binaryDigests, pair, pairCall, pairRet, loop, secretsVars, decoder>>

NextLookup == LookupFrameKey

SpecLookup == InitLookup /\ [][NextLookup]_vars

----------------------------------------------------------------------------
\* gen_secrets

\* Largest channel number and longest channel list handed to gen_secrets.
MaxChannel == 2
MaxListLen == 3

\* What the random source may give in one call: bytes that happen to be
\* UTF-8 text (digits), or bytes that are not.
Seeds == {"text", "binary"}

\* The i-th get_random_bytes(n) of a call: n bytes that depend on the seed
\* and on i.
get_random_bytes(n, seed, i) ==
    [j \in 1..n |-> IF seed = "text"
                    THEN 48 + ((i + j) % 10)
                    ELSE 128 + ((16 * i + j) % 128)]

\* bytes.hex(): the hex string of b, kept as a value of its own kind that
\* bytes.fromhex turns back into b.
hex(b) == [hex |-> b]

\* bytes.fromhex()
fromhex(h) == h.hex

\* ECC.generate(curve="Ed25519")
ECC_generate(seed) == [curve |-> "Ed25519", private |-> seed]

\* key.public_key()
public_key(key) == [curve |-> key.curve, public_of |-> key.private]

\* key.export_key(format='DER')
export_key(key) == [DER |-> key]

\* channel_secrets[channel] = value
DictSet(d, k, v) == [x \in (DOMAIN d) \cup {k} |-> IF x = k THEN v ELSE d[x]]

\* Mutant of FillChannelSecrets: channel 0 gets no secret
\* (if channel == 0: continue).
RECURSIVE FillChannelSecretsSkipZero(_, _, _, _)
FillChannelSecretsSkipZero(channel_secrets, chans, seed, i) ==
    IF i > Len(chans) THEN channel_secrets
    ELSE FillChannelSecretsSkipZero(
             IF chans[i] = 0 THEN channel_secrets
             ELSE DictSet(channel_secrets, chans[i],
                          hex(get_random_bytes(16, seed, i))),
             chans, seed, i + 1)

\* for channel in channels: channel_secrets[channel] = get_random_bytes(16).hex()
RECURSIVE FillChannelSecrets(_, _, _, _)
FillChannelSecrets(channel_secrets, chans, seed, i) ==
    IF i > Len(chans) THEN channel_secrets
    ELSE FillChannelSecrets(DictSet(channel_secrets, chans[i],
                                    hex(get_random_bytes(16, seed, i))),
                            chans, seed, i + 1)

\* The decimal digits.
Digit(d) == <<"0", "1", "2", "3", "4", "5", "6", "7", "8", "9">>[d + 1]

\* str(n) for n >= 0, a sequence of characters: how json.dumps writes an
\* integer dict key.
RECURSIVE str(_)
str(n) == IF n < 10 THEN <<Digit(n)>> ELSE Append(str(n \div 10), Digit(n % 10))

\* json.dumps of a dict with integer keys: the keys become strings; of two
\* keys with the same string the later one is kept.
DumpsDict(d) ==
    [s \in {str(k) : k \in DOMAIN d} |-> d[CHOOSE k \in DOMAIN d : str(k) = s]]

\* Mutant of SecretsObject: the object the Secrets type declares.
SecretsObjectAsDeclared(channel_secrets, decoder_dk, host_key_der, host_public_key_der) ==
    [channels |-> channel_secrets,
     decoder_dk |-> decoder_dk,
     host_key |-> host_key_der]

\* "Create the secrets object"
SecretsObject(channel_secrets, decoder_dk, host_key_der, host_public_key_der) ==
    [channels |-> channel_secrets,
     decoder_dk |-> decoder_dk,
     host_key_priv |-> host_key_der,
     host_key_pub |-> host_public_key_der]

\* Mutant of gen_secrets: 0 is appended to a copy of the caller's list.
gen_secrets_on_copy(chans, seed) ==
    LET appended == Append(chans, 0)
        channel_secrets == FillChannelSecrets(<<>>, appended, seed, 1)
        decoder_dk == hex(get_random_bytes(32, seed, Len(appended) + 1))
        host_key == ECC_generate(seed)
        obj == SecretsObject(channel_secrets, decoder_dk,
                             hex(export_key(host_key)),
                             hex(export_key(public_key(host_key))))
    IN  [channels |-> chans,
         secrets |-> [obj EXCEPT !.channels = DumpsDict(@)]]

\* gen_secrets(channels): the list object after the call and the JSON object
\* returned (json.dumps(secrets).encode(), as json.loads reads it back).
gen_secrets(chans, seed) ==
    LET appended == Append(chans, 0)
        channel_secrets == FillChannelSecrets(<<>>, appended, seed, 1)
        decoder_dk == hex(get_random_bytes(32, seed, Len(appended) + 1))
        host_key == ECC_generate(seed)
        host_key_der == hex(export_key(host_key))
        host_public_key == public_key(host_key)
        host_public_key_der == hex(export_key(host_public_key))
        obj == SecretsObject(channel_secrets, decoder_dk, host_key_der,
                             host_public_key_der)
    IN  [channels |-> appended,
         secrets |-> [obj EXCEPT !.channels = DumpsDict(@)]]

\* Channel numbers a caller may list: written with one digit or with two.
ChannelNumbers == (0..MaxChannel) \cup {10 * c : c \in 1..MaxChannel}

\* The lists a caller may build.
RECURSIVE ChannelLists(_)
ChannelLists(n) ==
    IF n = 0 THEN {<<>>}
    ELSE LET L == ChannelLists(n - 1)
         IN  L \cup {Append(l, c) : l \in L, c \in ChannelNumbers}

InitSecrets ==
    /\ given \in ChannelLists(MaxListLen)
    /\ channels = given
    /\ secrets = <<>>
    /\ deriv = [root |-> RootText, height |-> 1]
    /\ binaryDigests = {}
    /\ call = [op |-> "ChannelKeyDerivation"]
    /\ ret = Ok("object")
    /\ pair = <<>>
    /\ pairCall = <<>>
    /\ pairRet = <<>>
    /\ loop = <<>>
    /\ decoder = <<>>

\* gen_secrets is called on the caller's list object, up to MaxCalls times.
GenSecrets ==
    /\ Len(channels) - Len(given) < MaxCalls
    /\ \E seed \in Seeds :
        LET r == gen_secrets(channels, seed)
        IN  /\ channels' = r.channels
            /\ secrets' = r.secrets
    /\ UNCHANGED <<given, treeVars, decoder>>

NextSecrets == GenSecrets

SpecSecrets == InitSecrets /\ [][NextSecrets]_vars

----------------------------------------------------------------------------
\* gen_subscription (ectf25_design.gen_subscription is not part of the source
\* tree at hand; it is modelled from the specification's section 4.D, on top
\* of the source's ChannelKeyDerivation and get_decoder_key)

\* The height of the channel trees (64), scaled.
TreeHeight == MaxHeight

\* The slots of the cover block (25), scaled with the tree: a cover of the
\* tree may have 2 * TreeHeight - 2 nodes, the block holds TreeHeight.
CoverSlots == TreeHeight

\* Bytes per slot of the cover block, of the nonce and of the signature.
SlotBytes == 128
NonceBytes == 12
SignatureBytes == 64

\* Mutant of to_bytes: byteorder="big".
RECURSIVE to_bytes_big(_, _)
to_bytes_big(n, size) ==
    IF size = 0 THEN <<>> ELSE to_bytes_big(n \div 256, size - 1) \o <<n % 256>>

\* int.to_bytes(length=size, byteorder="little") / struct "<I", "<Q"
RECURSIVE to_bytes(_, _)
to_bytes(n, size) ==
    IF size = 0 THEN <<>> ELSE <<n % 256>> \o to_bytes(n \div 256, size - 1)

\* struct.unpack of one little-endian field.
RECURSIVE from_bytes(_)
from_bytes(b) == IF b = <<>> THEN 0 ELSE b[1] + 256 * from_bytes(Tail(b))

\* get_decoder_key(decoder_dk, decoder_id): HKDF keyed by the decoder id.
get_decoder_key(decoder_dk, decoder_id) ==
    [HKDF |-> decoder_dk, context |-> to_bytes(decoder_id, 4)]

\* n zero bytes.
Zeros(n) == [j \in 1..n |-> 0]

\* The 16 bytes of a key.
key_bytes(key) == [j \in 1..16 |-> [of |-> key, at |-> j]]

\* One slot of the cover block: u64 node_num, 16 bytes of key, zero filled.
Slot(node) ==
    LET used == to_bytes(node.node_num, 8) \o key_bytes(node.key)
    IN  used \o Zeros(SlotBytes - Len(used))

\* The cover block before encryption: the slots of the cover, then sentinel
\* slots (node_num = 0, zero key) up to CoverSlots.
RECURSIVE CoverBlock(_, _)
CoverBlock(cover, slots) ==
    IF slots = 0 THEN <<>>
    ELSE IF cover = <<>> THEN Zeros(SlotBytes) \o CoverBlock(cover, slots - 1)
    ELSE Slot(Head(cover)) \o CoverBlock(Tail(cover), slots - 1)

\* ChaCha20(key, nonce).encrypt(plain): byte by byte, same length.
ChaCha20(key, nonce, plain) ==
    [j \in 1..Len(plain) |-> [enc |-> plain[j], key |-> key.context]]

\* Ed25519 signature of a message: 64 bytes.
Sign(host_key, message) ==
    [j \in 1..SignatureBytes |->
        [signed_by |-> host_key.private, length |-> Len(message), at |-> j]]

\* Which channel error a request has: an unknown channel or channel 0.
SubscriptionChannelError(secrets_obj, channel) ==
    IF str(channel) \notin DOMAIN secrets_obj.channels THEN "unknown channel"
    ELSE IF channel = 0 THEN "channel 0"
    ELSE "none"

\* The package: header, encrypted cover block, signature over both.
SubscriptionPackage(secrets_obj, decoder_id, start, end, channel, cover, seed) ==
    LET nonce == get_random_bytes(NonceBytes, seed, 1)
        header == to_bytes(decoder_id, 4) \o to_bytes(start, 8)
                      \o to_bytes(end, 8) \o to_bytes(channel, 4) \o nonce
        key == get_decoder_key(fromhex(secrets_obj.decoder_dk), decoder_id)
        block == ChaCha20(key, nonce, CoverBlock(cover, CoverSlots))
        host_key == fromhex(secrets_obj.host_key_priv).DER
    IN  header \o block \o Sign(host_key, header \o block)

gen_subscription(secrets_obj, decoder_id, start, end, channel, seed) ==
    LET channel_error == SubscriptionChannelError(secrets_obj, channel)
    IN  IF channel_error # "none" THEN Raise(channel_error)
        ELSE IF start > end THEN Raise("start > end")
        ELSE LET root == fromhex(secrets_obj.channels[str(channel)])
                 tree == [root |-> root, height |-> TreeHeight]
                 cover == get_channel_keys(tree, start, end)
             IN  IF ~ cover.ok THEN cover
                 ELSE IF Len(cover.val) > CoverSlots THEN Raise("cover too large")
                 ELSE Ok(SubscriptionPackage(secrets_obj, decoder_id, start, end,
                                             channel, cover.val, seed))

\* The channel list of the deployment: a one-digit and a two-digit channel.
DeployedChannels == <<1, 10>>

\* Decoder ids: the tests' 12345 and one that fills all four bytes.
DecoderIds == {12345, 305419896}

\* The digests of all channel trees of a secrets object.
AllDigests(secrets_obj) ==
    UNION {Digests(fromhex(secrets_obj.channels[k]), TreeHeight) :
               k \in DOMAIN secrets_obj.channels}

\* Secrets were generated for the deployment; which digests are not UTF-8
\* is the environment's: all of them or none.
InitSubscription ==
    /\ given = DeployedChannels
    /\ \E seed \in Seeds :
        LET r == gen_secrets(given, seed)
        IN  /\ channels = r.channels
            /\ secrets = r.secrets
    /\ binaryDigests \in {AllDigests(secrets), {}}
    /\ call = [op |-> "gen_secrets"]
    /\ ret = Ok("secrets")
    /\ deriv = [root |-> fromhex(secrets.channels[str(0)]), height |-> TreeHeight]
    /\ pair = <<>>
    /\ pairCall = <<>>
    /\ pairRet = <<>>
    /\ loop = <<>>
    /\ decoder = <<>>

GenSubscription ==
    /\ call.op = "gen_secrets"
    /\ \E decoder_id \in DecoderIds, channel \in ChannelNumbers, seed \in {"text"},
          start \in TimestampInputs(deriv), end \in TimestampInputs(deriv) :
        /\ call' = [op |-> "gen_subscription", decoder_id |-> decoder_id,
                    start |-> start, end |-> end, channel |-> channel]
        /\ ret' = gen_subscription(secrets, decoder_id, start, end, channel, seed)
    /\ UNCHANGED <<deriv, binaryDigests, pair, pairCall, pairRet, loop, secretsVars, decoder>>

NextSubscription == GenSubscription

SpecSubscription == InitSubscription /\ [][NextSubscription]_vars

----------------------------------------------------------------------------
\* Encoder and decoder (ectf25_design.encoder and the decoder firmware are
\* not part of the source tree at hand; they are modelled from the
\* specification's sections 4.E and 4.F, on top of the source's
\* ChannelKeyDerivation)

\* extend_key(key): k | H(k)
extend_key(key) == <<key, [md5 |-> key]>>

\* The channel tree of a channel of the secrets.
ChannelTree(secrets_obj, channel) ==
    [root |-> fromhex(secrets_obj.channels[str(channel)]), height |-> TreeHeight]

\* Encoder.encode(channel, frame, timestamp): header, ciphertext under the
\* extended frame key, signature of the host.
encode(secrets_obj, channel, frame, timestamp, seed) ==
    IF str(channel) \notin DOMAIN secrets_obj.channels
    THEN Raise("unknown channel")
    ELSE LET key == get_frame_key(ChannelTree(secrets_obj, channel), timestamp)
             host_key == fromhex(secrets_obj.host_key_priv).DER
         IN  IF ~ key.ok THEN key
             ELSE Ok([channel |-> channel,
                      timestamp |-> timestamp,
                      nonce |-> get_random_bytes(NonceBytes, seed, 1),
                      ciphertext |-> [enc |-> frame, key |-> extend_key(key.val)],
                      signature |-> [signed_by |-> host_key.private]])

\* The id of the decoder device.
DecoderDeviceId == 12345

\* A decoder as built: no subscription, no frame accepted.  subs maps the
\* subscribed channels to [start, end, cover], last maps the channels on
\* which a frame was accepted to the timestamp of the last of them.
NewDecoder == [subs |-> <<>>, last |-> <<>>]

\* The nodes of a decrypted cover block: the slots before the first
\* sentinel (node_num = 0).
RECURSIVE ParseCoverBlock(_)
ParseCoverBlock(block) ==
    IF block = <<>> THEN <<>>
    ELSE LET node_num == from_bytes(SubSeq(block, 1, 8))
         IN  IF node_num = 0 THEN <<>>
             ELSE <<ChannelTreeNode(node_num, block[9].of)>>
                  \o ParseCoverBlock(SubSeq(block, SlotBytes + 1, Len(block)))

\* decoder.subscribe(package): the package is verified and decrypted with
\* the device's key, and replaces the subscription of its channel.
subscribe(dec, secrets_obj, package) ==
    LET length == Len(package)
        signature == SubSeq(package, length - SignatureBytes + 1, length)
        host_public_key == fromhex(secrets_obj.host_key_pub).DER
        decoder_id == from_bytes(SubSeq(package, 1, 4))
        start == from_bytes(SubSeq(package, 5, 12))
        end == from_bytes(SubSeq(package, 13, 20))
        channel == from_bytes(SubSeq(package, 21, 24))
        encrypted == SubSeq(package, 24 + NonceBytes + 1, length - SignatureBytes)
        key == get_decoder_key(fromhex(secrets_obj.decoder_dk), DecoderDeviceId)
        block == [j \in 1..Len(encrypted) |-> encrypted[j].enc]
    IN  IF \/ signature[1].signed_by # host_public_key.public_of
           \/ signature[1].length # length - SignatureBytes
        THEN [decoder |-> dec, ret |-> Raise("bad signature")]
        ELSE IF decoder_id # DecoderDeviceId \/ encrypted[1].key # key.context
        THEN [decoder |-> dec, ret |-> Raise("wrong decoder")]
        ELSE IF channel = 0
        THEN [decoder |-> dec, ret |-> Raise("channel 0")]
        ELSE [decoder |-> [dec EXCEPT !.subs =
                              DictSet(@, channel,
                                      [start |-> start, end |-> end,
                                       cover |-> ParseCoverBlock(block)])],
              ret |-> Ok("subscribed")]

\* The subscription the decoder has for a channel: channel 0 is always
\* subscribed with the full range and the root of its tree.
SubscriptionOf(dec, secrets_obj, channel) ==
    IF channel = 0
    THEN Ok([start |-> 0, end |-> MaxTimestamp,
             cover |-> <<ChannelTreeNode(
                            1, RootKey(ChannelTree(secrets_obj, 0).root))>>])
    ELSE IF channel \in DOMAIN dec.subs THEN Ok(dec.subs[channel])
    ELSE Raise("not subscribed")

\* Mutant of ReplayRejected: only older timestamps are rejected.
ReplayRejectedOnlyOlder(dec, channel, timestamp) ==
    channel \in DOMAIN dec.last /\ timestamp < dec.last[channel]

\* The timestamp is not after the last one accepted on the channel.
ReplayRejected(dec, channel, timestamp) ==
    channel \in DOMAIN dec.last /\ timestamp <= dec.last[channel]

\* decoder.decode(frame)
decode(dec, secrets_obj, frame) ==
    LET host_public_key == fromhex(secrets_obj.host_key_pub).DER
        sub == SubscriptionOf(dec, secrets_obj, frame.channel)
    IN  IF frame.signature.signed_by # host_public_key.public_of
        THEN [decoder |-> dec, ret |-> Raise("bad signature")]
        ELSE IF ~ sub.ok THEN [decoder |-> dec, ret |-> sub]
        ELSE IF frame.timestamp < sub.val.start \/ frame.timestamp > sub.val.end
        THEN [decoder |-> dec, ret |-> Raise("timestamp outside the subscription")]
        ELSE IF ReplayRejected(dec, frame.channel, frame.timestamp)
        THEN [decoder |-> dec, ret |-> Raise("timestamp not after the last")]
        ELSE LET leaf_key == get_frame_key_from_cover(
                                 [root |-> <<>>, height |-> TreeHeight],
                                 sub.val.cover, frame.timestamp)
             IN  IF ~ leaf_key.ok THEN [decoder |-> dec, ret |-> leaf_key]
                 ELSE [decoder |-> [dec EXCEPT !.last =
                                       DictSet(@, frame.channel, frame.timestamp)],
                       ret |-> IF frame.ciphertext.key = extend_key(leaf_key.val)
                               THEN Ok(frame.ciphertext.enc)
                               ELSE Ok(<<"garbled", frame.ciphertext.enc>>)]

\* Largest timestamp of the subscriptions and frames sent to the decoder.
MaxDecoderTimestamp == 2

DecoderTimestamps == 0..MaxDecoderTimestamp

\* The subscriptions requested: every range of DecoderTimestamps on the first
\* channel of the deployment for this decoder, one for another decoder and
\* one for channel 0.
SubscriptionRequests ==
    {[decoder_id |-> DecoderDeviceId, channel |-> DeployedChannels[1],
      start |-> r[1], end |-> r[2]] :
         r \in {x \in DecoderTimestamps \X DecoderTimestamps : x[1] <= x[2]}}
    \cup {[decoder_id |-> d, channel |-> DeployedChannels[1],
           start |-> 0, end |-> MaxDecoderTimestamp] :
              d \in DecoderIds \ {DecoderDeviceId}}
    \cup {[decoder_id |-> DecoderDeviceId, channel |-> 0,
           start |-> 0, end |-> MaxDecoderTimestamp]}

\* The frame the test sends for a channel and a timestamp.
FrameData(channel, timestamp) == <<"frame", channel, timestamp>>

InitDecoder ==
    /\ given = DeployedChannels
    /\ \E seed \in Seeds :
        LET r == gen_secrets(given, seed)
        IN  /\ channels = r.channels
            /\ secrets = r.secrets
    /\ binaryDigests \in {AllDigests(secrets), {}}
    /\ decoder = NewDecoder
    /\ call = [op |-> "DecoderIntf"]
    /\ ret = Ok("decoder")
    /\ deriv = [root |-> fromhex(secrets.channels[str(0)]), height |-> TreeHeight]
    /\ pair = <<>>
    /\ pairCall = <<>>
    /\ pairRet = <<>>
    /\ loop = <<>>

\* A subscription is generated and written to the decoder.
DecoderSubscribe ==
    /\ \E q \in SubscriptionRequests :
        LET sub == gen_subscription(secrets, q.decoder_id, q.start, q.end,
                                    q.channel, "text")
            r == subscribe(decoder, secrets, sub.val)
        IN  /\ call' = [op |-> "subscribe", decoder_id |-> q.decoder_id,
                        channel |-> q.channel, generated |-> sub.ok]
            /\ ret' = IF sub.ok THEN r.ret ELSE sub
            /\ decoder' = IF sub.ok THEN r.decoder ELSE decoder
    /\ UNCHANGED <<deriv, binaryDigests, pair, pairCall, pairRet, loop, secretsVars>>

\* A frame is encoded and sent to the decoder: for channel 0, for the
\* channels of the deployment or for a channel the secrets do not have.
DecoderDecode ==
    /\ \E channel \in {0, 2} \cup {DeployedChannels[i] : i \in 1..Len(DeployedChannels)},
          timestamp \in DecoderTimestamps :
        LET encoded_frame == encode(secrets, channel, FrameData(channel, timestamp),
                                    timestamp, "text")
            r == decode(decoder, secrets, encoded_frame.val)
        IN  /\ call' = [op |-> "decode", channel |-> channel,
                        timestamp |-> timestamp, encoded |-> encoded_frame.ok]
            /\ ret' = IF encoded_frame.ok THEN r.ret ELSE encoded_frame
            /\ decoder' = IF encoded_frame.ok THEN r.decoder ELSE decoder
    /\ UNCHANGED <<deriv, binaryDigests, pair, pairCall, pairRet, loop, secretsVars>>

NextDecoder ==
    \/ DecoderSubscribe
    \/ DecoderDecode

SpecDecoder == InitDecoder /\ [][NextDecoder]_vars

----------------------------------------------------------------------------
\* Vocabulary of the properties

Height == deriv.height

TreeNodes == 1..(2 ^ (Height + 1) - 1)

Timestamps == 0..(2 ^ Height - 1)

\* 0 <= start <= end <= 2^H - 1
InTree(start, end) == 0 <= start /\ start <= end /\ end <= 2 ^ Height - 1

\* n is m or an ancestor of m in the level-order numbering.
IsAncestorOrSelf(n, m) == \E k \in 0..(Height + 1) : m \div (2 ^ k) = n

\* The timestamps whose leaf lies under node n.
LeavesUnder(n) == {t \in Timestamps : IsAncestorOrSelf(n, 2 ^ Height + t)}

\* The depth of a tree node: the d with 2^d <= n < 2^(d+1).
Depth(n) == CHOOSE d \in 0..Height : 2 ^ d <= n /\ n < 2 ^ (d + 1)

MinOfSet(S) == CHOOSE x \in S : \A y \in S : x <= y

\* The least number of tree nodes whose leaf ranges partition x..e.  The
\* ranges of a partition, taken from left to right, each start one past the
\* end of the one before; every choice of the leftmost node is tried.
RECURSIVE SmallestTiling(_, _)
SmallestTiling(x, e) ==
    IF x > e THEN 0
    ELSE LET first == {n \in TreeNodes :
                          /\ LeavesUnder(n) # {}
                          /\ MinOfSet(LeavesUnder(n)) = x
                          /\ \A t \in LeavesUnder(n) : t <= e}
         IN  1 + MinOfSet({SmallestTiling(x + Cardinality(LeavesUnder(n)), e) :
                              n \in first})

\* get_covering_nodes was called with a range of the tree.
CoveringCalled ==
    /\ call.op = "get_covering_nodes"
    /\ InTree(call.start, call.end)

----------------------------------------------------------------------------
\* C1: for every range 0 <= start <= end <= 2^H - 1, get_covering_nodes
\* returns and get_channel_nodes_cover of the returned nodes is (start, end):
\* the smallest leaf under the returned nodes is start and the largest is end.
C1_CoverOfCoveringNodes ==
    CoveringCalled =>
        /\ ret.ok
        /\ get_channel_nodes_cover(deriv, ret.val) = Ok(<<call.start, call.end>>)
        /\ LET covered == UNION {LeavesUnder(ret.val[i]) : i \in 1..Len(ret.val)}
           IN  /\ call.start \in covered
               /\ call.end \in covered
               /\ \A t \in covered : call.start <= t /\ t <= call.end

\* A range covered by three nodes or more, found in both phases of the search.
C1_Witness ==
    /\ CoveringCalled
    /\ ret.ok
    /\ Len(ret.val) >= 3
    /\ ret.val[2] < ret.val[1]
    /\ ret.val[Len(ret.val)] > ret.val[Len(ret.val) - 1]

\* C2: for every range of the tree the returned nodes are tree nodes whose
\* leaf sets are pairwise disjoint and together are exactly start..end: every
\* timestamp of the range is under exactly one returned node, every other
\* timestamp under none.
C2_CoveringNodesPartitionRange ==
    CoveringCalled =>
        /\ ret.ok
        /\ \A i \in 1..Len(ret.val) : ret.val[i] \in TreeNodes
        /\ \A t \in Timestamps :
               Cardinality({i \in 1..Len(ret.val) : t \in LeavesUnder(ret.val[i])})
                   = IF call.start <= t /\ t <= call.end THEN 1 ELSE 0

\* A range strictly inside the tree's timestamps that takes several nodes.
C2_Witness ==
    /\ CoveringCalled
    /\ ret.ok
    /\ call.start > 0
    /\ call.end < 2 ^ Height - 1
    /\ Len(ret.val) >= 2

\* C3: the returned list is minimum: no partition of start..end into leaf
\* ranges of tree nodes has fewer nodes, and a range that is the cover of one
\* node n yields the list <<n>>.
C3_CoveringNodesMinimum ==
    CoveringCalled =>
        /\ ret.ok
        /\ Len(ret.val) = SmallestTiling(call.start, call.end)
        /\ \A n \in TreeNodes :
               get_channel_node_cover(deriv, n) = <<call.start, call.end>>
                   => ret.val = <<n>>

\* A range that no single node covers and that two nodes cannot cover either.
C3_Witness ==
    /\ CoveringCalled
    /\ ret.ok
    /\ Len(ret.val) >= 3
    /\ SmallestTiling(call.start, call.end) = Len(ret.val)

\* C4: for every range of the tree get_covering_nodes returns at most
\* 2*H - 1 nodes.
C4_CoveringNodesAtMost2HMinus1 ==
    CoveringCalled => ret.ok /\ Len(ret.val) <= 2 * Height - 1

\* The longest lists returned: 2*H - 2 nodes in a tree of height 2 or more.
C4_Witness ==
    /\ CoveringCalled
    /\ ret.ok
    /\ Height >= 2
    /\ Len(ret.val) = 2 * Height - 2

\* C8: for every tree node n of depth d, get_channel_node_cover(n) is (lo, hi)
\* with lo = (n - 2^d) * 2^(H-d) and hi - lo + 1 = 2^(H-d): exactly the leaves
\* under n.  Node 1 covers everything, node 2^i the first 2^(H-i) leaves, node
\* 2^(i+1) - 1 the last 2^(H-i) leaves, and the covers of 2n and 2n+1 are the
\* left and right halves of the cover of n.
C8_NodeCover ==
    (call.op = "get_channel_node_cover" /\ call.node_num \in TreeNodes) =>
        LET n == call.node_num
            d == Depth(n)
            span == 2 ^ (Height - d)
            lo == ret.val[1]
            hi == ret.val[2]
        IN  /\ ret.ok
            /\ d = bit_length(n) - 1
            /\ lo = (n - 2 ^ d) * span
            /\ hi - lo + 1 = span
            /\ lo..hi = LeavesUnder(n)
            /\ n = 1 => ret.val = <<0, 2 ^ Height - 1>>
            /\ n = 2 ^ d => ret.val = <<0, span - 1>>
            /\ n = 2 ^ (d + 1) - 1 => ret.val = <<2 ^ Height - span, 2 ^ Height - 1>>
            /\ d < Height =>
                   /\ get_channel_node_cover(deriv, 2 * n) = <<lo, lo + span \div 2 - 1>>
                   /\ get_channel_node_cover(deriv, 2 * n + 1) = <<lo + span \div 2, hi>>

\* The cover of an inner node that is neither first nor last of its level.
C8_Witness ==
    /\ call.op = "get_channel_node_cover"
    /\ call.node_num = 5
    /\ Height >= 3
    /\ ret = Ok(<<2 ^ (Height - 2), 2 ^ (Height - 1) - 1>>)

----------------------------------------------------------------------------
\* Properties of the keys

\* The key of a tree node as the tree defines it: key(1) is the channel root,
\* key(2m) = MD5(key(m) + "L") and key(2m+1) = MD5(key(m) + "R").
RECURSIVE KeyAt(_)
KeyAt(n) ==
    IF n = 1 THEN RootKey(deriv.root)
    ELSE IF n % 2 = 0 THEN get_left_subkey(KeyAt(n \div 2))
    ELSE get_right_subkey(KeyAt(n \div 2))

\* get_frame_key_from_cover(get_channel_keys(start, end), frame_num) was
\* evaluated for a range of the tree.
FrameKeyFromCoverCalled ==
    /\ call.op = "get_frame_key_from_cover"
    /\ InTree(call.start, call.end)

\* C5: for every range of the tree and every timestamp t of the range,
\* get_frame_key_from_cover(get_channel_keys(start, end), t) returns without
\* error the key get_frame_key(t) returns: the key of leaf t, derived from
\* the channel root along the whole path.
C5_FrameKeyFromCoverIsFrameKey ==
    (/\ FrameKeyFromCoverCalled
     /\ call.start <= call.frame_num
     /\ call.frame_num <= call.end) =>
        /\ ret = Ok(KeyAt(2 ^ Height + call.frame_num))
        /\ get_frame_key(deriv, call.frame_num) = ret

\* C6: for every range of the tree and every timestamp t of the tree outside
\* the range, get_frame_key_from_cover(get_channel_keys(start, end), t) raises
\* and returns no key.
C6_FrameOutsideRangeRaises ==
    (/\ FrameKeyFromCoverCalled
     /\ call.frame_num \in Timestamps
     /\ (call.frame_num < call.start \/ call.frame_num > call.end)) =>
        ~ ret.ok

\* The keys of a range of several nodes were generated, and the lookup of a
\* timestamp of the tree past the range's end failed.
C6_Witness ==
    /\ FrameKeyFromCoverCalled
    /\ call.keys
    /\ call.start > 0
    /\ call.end > call.start + 1
    /\ call.frame_num \in Timestamps
    /\ call.frame_num > call.end
    /\ ret = Raise("Could not derive a key from the given nodes")

\* C7: for every range of the tree, the lookups of start - 1 and of end + 1
\* in get_channel_keys(start, end) raise, also for start = 0 (frame -1) and
\* end = 2^H - 1 (frame 2^H).
C7_NeighbourFramesRaise ==
    (/\ FrameKeyFromCoverCalled
     /\ call.frame_num \in {call.start - 1, call.end + 1}) =>
        ~ ret.ok

\* C9: for every tree node n, get_key_for_node(n) returns
\* ChannelTreeNode(n, key(n)).
C9_KeyForNode ==
    (call.op = "get_key_for_node" /\ call.node_num \in TreeNodes) =>
        ret = Ok(ChannelTreeNode(call.node_num, KeyAt(call.node_num)))

\* C10: get_covering_nodes does not depend on the channel root and is
\* deterministic: all calls for one range, on two objects of the same height
\* and different roots, return the same.
C10_CoveringNodesIgnoreRoot ==
    \A i \in DOMAIN pairRet, j \in DOMAIN pairRet :
        \A a \in 1..Len(pairRet[i]), b \in 1..Len(pairRet[j]) :
            pairRet[i][a] = pairRet[j][b]

\* Both objects were asked, one of them twice, for a range of several nodes.
C10_Witness ==
    /\ pair # <<>>
    /\ pair[1].root # pair[2].root
    /\ pair[1].height = pair[2].height
    /\ Len(pairRet[1]) >= 1
    /\ Len(pairRet[2]) >= 2
    /\ pairRet[1][1].ok
    /\ Len(pairRet[1][1].val) >= 3

----------------------------------------------------------------------------
\* Properties of the loop of get_covering_nodes

\* C11: for every range of the tree the loop of get_covering_nodes ends and
\* the nodes are returned; when it has ended the last pass emitted the root
\* (break) or the cover of the emitted nodes is (start, end); and at no time
\* have more than 2*H - 1 nodes been emitted.
C11_LoopTerminates ==
    /\ <>(loop.pc = "return")
    /\ [](loop.pc = "return" =>
            \/ /\ loop.st.status = "break"
               /\ loop.st.nodes[Len(loop.st.nodes)] = 1
            \/ /\ loop.st.status = "run"
               /\ get_channel_nodes_cover(deriv, loop.st.nodes)
                      = Ok(loop.decode_range))
    /\ [](Len(loop.st.nodes) <= 2 * Height - 1)

\* A call that returned after the longest search, left by the loop test.
C11_Witness ==
    /\ loop # <<>>
    /\ loop.pc = "return"
    /\ loop.st.status = "run"
    /\ loop.st.descending
    /\ Height >= 2
    /\ Len(loop.st.nodes) = 2 * Height - 2

----------------------------------------------------------------------------
\* Properties of gen_secrets

\* int(key) of a key written by json.dumps.
RECURSIVE int(_)
int(s) ==
    IF s = <<>> THEN 0
    ELSE 10 * int(SubSeq(s, 1, Len(s) - 1))
         + (CHOOSE d \in 0..9 : Digit(d) = s[Len(s)])

\* The elements of a list.
Elements(l) == {l[i] : i \in 1..Len(l)}

\* gen_secrets has returned a bundle.
Generated == secrets # <<>>

\* C12: for every input list of channel numbers, with or without duplicates
\* and with or without 0, the keys of the emitted channels object are exactly
\* the numbers of the input and 0, each written once.
C12_ChannelKeySet ==
    Generated =>
        /\ {int(k) : k \in DOMAIN secrets.channels} = Elements(given) \cup {0}
        /\ Cardinality(DOMAIN secrets.channels)
               = Cardinality(Elements(given) \cup {0})
        /\ \A k \in DOMAIN secrets.channels : str(int(k)) = k

\* A list with a duplicate and with a 0 of its own was given.
C12_Witness ==
    /\ Generated
    /\ Len(given) = 3
    /\ given[1] = given[3]
    /\ given[1] # 0
    /\ given[1] >= 10
    /\ given[2] = 0
    /\ Cardinality(DOMAIN secrets.channels) = 2

C14_HostKeyEntry ==
    Generated =>
        /\ "host_key" \in DOMAIN secrets
        /\ secrets["host_key"].hex.DER.curve = "Ed25519"
        /\ "private" \in DOMAIN secrets["host_key"].hex.DER

----------------------------------------------------------------------------
\* Properties of get_channel_nodes_cover

MaxOfSet(S) == CHOOSE x \in S : \A y \in S : x >= y

\* The timestamps under at least one node of a list.
UnionOfCovers(nodes) == UNION {LeavesUnder(nodes[i]) : i \in 1..Len(nodes)}

\* get_channel_nodes_cover was called with a non-empty list of tree nodes.
NodesCoverCalled ==
    /\ call.op = "get_channel_nodes_cover"
    /\ call.nodes # <<>>

\* It returned (minimum lo, maximum hi) over the covers of the nodes.
ReturnsBoundingBox ==
    ret = Ok(<<MinOfSet(UnionOfCovers(call.nodes)),
               MaxOfSet(UnionOfCovers(call.nodes))>>)

\* The bounding box returned is exactly the union of the nodes' covers.
BoxIsUnion == (ret.val[1])..(ret.val[2]) = UnionOfCovers(call.nodes)

\* The list is what get_covering_nodes returns for the bounding box.
IsCoveringList ==
    Ok(call.nodes) = get_covering_nodes(deriv, ret.val[1], ret.val[2])

\* C15 as stated: get_channel_nodes_cover returns (minimum lo, maximum hi),
\* and this bounding box is the exact union of the covers only for the list
\* get_covering_nodes produces for that range; for every other non-empty
\* list the two differ.
C15_BoxIsUnionOnlyForCoveringList ==
    NodesCoverCalled =>
        /\ ReturnsBoundingBox
        /\ BoxIsUnion <=> IsCoveringList

\* C15, amended: get_channel_nodes_cover returns (minimum lo, maximum hi);
\* the bounding box is the exact union of the covers for the list
\* get_covering_nodes produces for that range, and for any other list it is
\* the exact union exactly when the covers leave no gap: when every node's
\* cover ends where the box ends or is continued by the cover of a listed
\* node.
C15_BoxIsUnionIffNoGap ==
    NodesCoverCalled =>
        LET cover(i) == get_channel_node_cover(deriv, call.nodes[i])
            I == 1..Len(call.nodes)
        IN  /\ ReturnsBoundingBox
            /\ IsCoveringList => BoxIsUnion
            /\ BoxIsUnion <=>
                   \A i \in I :
                       \/ cover(i)[2] = ret.val[2]
                       \/ \E j \in I : /\ cover(j)[1] <= cover(i)[2] + 1
                                       /\ cover(i)[2] + 1 <= cover(j)[2]

\* Two siblings, right one first: not a list get_covering_nodes returns, yet
\* the bounding box is the exact union.
C15_Witness ==
    /\ NodesCoverCalled
    /\ Len(call.nodes) = 2
    /\ call.nodes[1] = call.nodes[2] + 1
    /\ call.nodes[2] % 2 = 0
    /\ ~ IsCoveringList
    /\ BoxIsUnion
    /\ ReturnsBoundingBox

----------------------------------------------------------------------------
\* Properties of gen_subscription

\* gen_subscription was called.
SubscriptionCalled == call.op = "gen_subscription"

\* ... for a non-zero channel of the secrets.
KnownChannelAsked ==
    /\ SubscriptionCalled
    /\ call.channel # 0
    /\ str(call.channel) \in DOMAIN secrets.channels

\* The least number of nodes of the tree that cover start..end exactly.
MinimumCoverSize(start, end) ==
    Len(get_covering_nodes([root |-> RootText, height |-> TreeHeight],
                           start, end).val)

\* C16: a subscription for channel 0 is rejected with an error and no package
\* is produced, for every decoder id and every range, while the same request
\* (a range of the tree whose cover fits the slots) for a non-zero channel of
\* the secrets produces a package.
C16_ChannelZeroRejected ==
    /\ (SubscriptionCalled /\ call.channel = 0) => ~ ret.ok
    /\ (/\ KnownChannelAsked
        /\ 0 <= call.start /\ call.start <= call.end
        /\ call.end <= 2 ^ TreeHeight - 1
        /\ MinimumCoverSize(call.start, call.end) <= CoverSlots) => ret.ok

\* C17: for a non-zero channel of the secrets and a range of the tree, the
\* subscription is rejected when the minimum cover has more nodes than the
\* block has slots and a package is produced when it has at most that many.
C17_RejectedIffCoverTooLarge ==
    (/\ KnownChannelAsked
     /\ 0 <= call.start /\ call.start <= call.end
     /\ call.end <= 2 ^ TreeHeight - 1) =>
        (ret.ok <=> MinimumCoverSize(call.start, call.end) <= CoverSlots)

\* C18: every package gen_subscription returns has 36 + slots * 128 + 64
\* bytes whatever the size of the cover, and its first 24 bytes are the
\* little-endian decoder id (4 bytes), start (8), end (8) and channel (4) of
\* the request.
C18_PackageSizeAndHeader ==
    (SubscriptionCalled /\ ret.ok) =>
        /\ Len(ret.val) = 36 + CoverSlots * SlotBytes + SignatureBytes
        /\ from_bytes(SubSeq(ret.val, 1, 4)) = call.decoder_id
        /\ from_bytes(SubSeq(ret.val, 5, 12)) = call.start
        /\ from_bytes(SubSeq(ret.val, 13, 20)) = call.end
        /\ from_bytes(SubSeq(ret.val, 21, 24)) = call.channel

\* A package for the two-digit channel and the four-byte decoder id, for a
\* range whose cover leaves slots unused.
C18_Witness ==
    /\ SubscriptionCalled
    /\ ret.ok
    /\ call.channel = 10
    /\ call.decoder_id > 2 ^ 24
    /\ call.start > 0
    /\ MinimumCoverSize(call.start, call.end) = 2
    /\ CoverSlots > 2
    /\ Len(ret.val) = 36 + CoverSlots * SlotBytes + SignatureBytes

----------------------------------------------------------------------------
\* Properties of the decoder

\* The decoder accepts a frame of the channel with the timestamp: the
\* channel is subscribed (channel 0 always, with the full range), the
\* timestamp is in the subscription's range and after the last timestamp
\* accepted on the channel.
Accepts(dec, channel, timestamp) ==
    /\ \/ channel = 0
       \/ /\ channel \in DOMAIN dec.subs
          /\ dec.subs[channel].start <= timestamp
          /\ timestamp <= dec.subs[channel].end
    /\ channel \in DOMAIN dec.last => timestamp > dec.last[channel]

----------------------------------------------------------------------------
\* Properties of the passes of get_covering_nodes (SpecLoop)

\* The nodes emitted so far by the call, in emission order.
Emitted == loop.st.nodes

\* The cover of node n is contained in the requested range.
CoverInRange(n) == in_range(get_channel_node_cover(deriv, n), loop.decode_range)

\* Node n is maximal for the requested range: its cover is inside the range
\* and it is the root or its parent's cover is not.
MaximalInRange(n) ==
    /\ CoverInRange(n)
    /\ n = 1 \/ ~ CoverInRange(n \div 2)

\* C21: every node emitted by get_covering_nodes, in either phase, is
\* maximal: its cover is contained in [start, end] and it is the root or its
\* parent's cover is not contained in [start, end]; no two emitted nodes are
\* siblings.
C21_EmittedNodesMaximal ==
    /\ \A i \in 1..Len(Emitted) : MaximalInRange(Emitted[i])
    /\ \A i, j \in 1..Len(Emitted) :
          i # j => Emitted[i] \div 2 # Emitted[j] \div 2

\* A call that returned nodes emitted in both phases: several while
\* ascending, one of them above the leaves, and then a deeper one while
\* descending.
C21_Witness ==
    /\ loop.pc = "return"
    /\ loop.st.descending
    /\ Len(Emitted) >= 4
    /\ \E i \in 1..Len(Emitted) : Emitted[i] < 2 ^ Height
    /\ \E i \in 1..(Len(Emitted) - 1) : Emitted[i + 1] \div 2 > Emitted[i]

\* C22: for every range of the tree, whenever the descending branch of
\* get_covering_nodes runs, iter_node is an internal node, so the assertion
\* get_left_child(iter_node) < 2^(H+1) does not fail, and the left descent
\* stops at or above the leaves: the node it emits is below 2^(H+1).
C22_DescentStaysInTree ==
    /\ [](loop.st.status # "assert" /\ loop.pc # "raise")
    /\ [](LoopContinues /\ loop.st.descending =>
             /\ 1 <= loop.st.iter_node
             /\ loop.st.iter_node < 2 ^ Height
             /\ get_left_child(loop.st.iter_node) < 2 ^ (Height + 1))
    /\ [][LoopDescending =>
             /\ Len(loop'.st.nodes) = Len(Emitted) + 1
             /\ loop'.st.nodes[Len(loop'.st.nodes)] < 2 ^ (Height + 1)
             /\ loop'.st.iter_node <= 2 ^ (Height + 1)]_vars

\* The descending branch ran twice and its second descent ended on a leaf.
C22_Witness ==
    /\ loop.st.descending
    /\ Len(Emitted) >= 3
    /\ Emitted[Len(Emitted)] >= 2 ^ Height
    /\ Emitted[Len(Emitted)] \div 2 = Emitted[Len(Emitted) - 1] + 1
    /\ Emitted[Len(Emitted) - 1] \div 2 = Emitted[Len(Emitted) - 2] + 1

\* Node n is the rightmost node of its level: n = 2^(d+1) - 1.
IsRightmost(n) == \E d \in 0..Height : n = 2 ^ (d + 1) - 1

\* The node appended by the pass that has just run.
LastEmitted == Emitted[Len(Emitted)]

\* C23: for every range of the tree, whenever an ascending pass of
\* get_covering_nodes emits the rightmost node of its level, the emitted
\* nodes cover exactly [start, end] and the loop is left: no further pass
\* runs, so iter_node = n + 1 is never used to emit a node.
C23_RightmostEndsLoop ==
    [][LoopAscending /\ IsRightmost(LastEmitted') =>
          /\ get_channel_nodes_cover(deriv, Emitted') = Ok(loop.decode_range)
          /\ \A i \in 1..Len(Emitted') :
                get_channel_node_cover(deriv, Emitted'[i])[1]
                    = IF i = 1 THEN loop.decode_range[1]
                      ELSE get_channel_node_cover(deriv, Emitted'[i - 1])[2] + 1
          /\ ~ LoopContinues'
          /\ LastEmitted' # 1 => loop'.st.iter_node = LastEmitted' + 1]_vars

\* A call that returned after an ascending pass emitted the rightmost node of
\* a level below the root, as the second node at least; iter_node was moved
\* to the leftmost node of the next level.
C23_Witness ==
    /\ loop.pc = "return"
    /\ Len(Emitted) >= 2
    /\ IsRightmost(LastEmitted)
    /\ LastEmitted < 2 ^ Height
    /\ loop.st.iter_node = LastEmitted + 1

\* C24: get_covering_nodes never emits node 0: every emitted node number
\* lies in 1..2^(H+1) - 1; the cover computed for node 0, the parent of the
\* root in the ascent, is not contained in the requested range; and when
\* the root is emitted the list is exactly [1].
C24_NeverNodeZero ==
    /\ \A i \in 1..Len(Emitted) : Emitted[i] \in TreeNodes
    /\ get_parent(1) = 0 /\ ~ CoverInRange(get_parent(1))
    /\ (\E i \in 1..Len(Emitted) : Emitted[i] = 1) => Emitted = <<1>>

\* The call for the whole tree returned: the ascent climbed from the first
\* leaf to the root, stopped there and emitted it.
C24_Witness ==
    /\ loop.pc = "return"
    /\ Height = MaxHeight
    /\ loop.decode_range = <<0, 2 ^ Height - 1>>
    /\ loop.st.status = "break"
    /\ Emitted = <<1>>

----------------------------------------------------------------------------
\* Properties of the entry of get_covering_nodes (SpecEntry)

\* One of the conditions under which the call must be rejected.
RangeRejected(start, end) ==
    \/ start > end
    \/ start < 0
    \/ end < 0
    \/ start > MaxTimestamp
    \/ end > MaxTimestamp

\* C25: get_covering_nodes rejects every call with start > end, start < 0,
\* end < 0, start > 2^64 - 1 or end > 2^64 - 1: it raises before any node
\* is emitted and returns no list.  The bound is the fixed 2^64 - 1 and not
\* 2^height: every other range up to that bound passes the assertion, for
\* every height.
C25_BadRangeRejected ==
    /\ RangeRejected(loop.decode_range[1], loop.decode_range[2]) =>
          /\ loop.pc \in {"assert", "raise"}
          /\ loop.st.nodes = <<>>
    /\ (loop.pc = "raise" /\ loop.st.nodes = <<>>) =>
          RangeRejected(loop.decode_range[1], loop.decode_range[2])
    /\ \A start, end \in 0..MaxTimestamp :
          start <= end => RangeAssert(start, end)

\* A call on a tree lower than 64 levels in scale was rejected for an end
\* one past the fixed bound, with a start inside the tree.
C25_Witness ==
    /\ loop.pc = "raise"
    /\ Height < MaxHeight
    /\ loop.decode_range[1] \in Timestamps
    /\ loop.decode_range[2] = MaxTimestamp + 1
    /\ loop.st.nodes = <<>>

----------------------------------------------------------------------------
\* More properties of the passes of get_covering_nodes (SpecLoop)

\* The last timestamp under the nodes emitted so far.
PrefixEnd == MaxOfSet(LeavesUnder(LastEmitted))

\* The emitted nodes, in emission order, tile start..x: the first node's
\* leaves start at start and each node's leaves start one past the end of
\* the node before.
TilesPrefix ==
    \A i \in 1..Len(Emitted) :
        /\ LeavesUnder(Emitted[i]) # {}
        /\ MinOfSet(LeavesUnder(Emitted[i]))
               = IF i = 1 THEN loop.decode_range[1]
                 ELSE MaxOfSet(LeavesUnder(Emitted[i - 1])) + 1

\* C26: loop invariant of get_covering_nodes.  After every emission the
\* emitted nodes, in emission order, tile a prefix [start, x] of the range
\* with x <= end; unless the loop is about to exit, the cover of the next
\* iter_node starts at x + 1; so the bounding-box test of the loop condition
\* is true only when the emitted nodes cover exactly [start, end].
C26_LoopInvariant ==
    Emitted # <<>> =>
        /\ TilesPrefix
        /\ PrefixEnd <= loop.decode_range[2]
        /\ LoopContinues =>
              /\ loop.st.iter_node \in TreeNodes
              /\ MinOfSet(LeavesUnder(loop.st.iter_node)) = PrefixEnd + 1
        /\ LoopExit(deriv, Emitted, loop.decode_range) =>
              /\ UnionOfCovers(Emitted)
                     = (loop.decode_range[1])..(loop.decode_range[2])
              /\ PrefixEnd = loop.decode_range[2]

\* In the middle of a call: the ascent has emitted its nodes, the range is
\* not covered yet, and the descent starts one timestamp past the prefix.
C26_Witness ==
    /\ LoopContinues
    /\ loop.st.descending
    /\ Len(Emitted) >= 3
    /\ PrefixEnd < loop.decode_range[2]
    /\ MinOfSet(LeavesUnder(loop.st.iter_node)) = PrefixEnd + 1
    /\ loop.decode_range[1] > 0

\* C27: the phase flag of get_covering_nodes is monotone: it starts as
\* ascending, may switch to descending once and never switches back.  The
\* depths of the nodes emitted while ascending do not increase, and decrease
\* strictly except possibly for the last two of them; the depths of the
\* nodes emitted while descending increase strictly.
C27_PhasesMonotone ==
    /\ [](Emitted = <<>> => ~ loop.st.descending)
    /\ [][loop.st.descending => loop'.st.descending]_vars
    /\ [][LoopAscending /\ Emitted # <<>> =>
             /\ Depth(LastEmitted') <= Depth(LastEmitted)
             /\ Depth(LastEmitted') = Depth(LastEmitted) =>
                   loop'.st.descending \/ ~ LoopContinues']_vars
    /\ [][LoopDescending =>
             /\ Emitted # <<>>
             /\ Depth(LastEmitted') > Depth(LastEmitted)]_vars

\* A call that went through both phases: three nodes while ascending, the
\* last two at the same depth, then the switch and a deeper node.
C27_Witness ==
    /\ loop.pc = "return"
    /\ loop.st.descending
    /\ Len(Emitted) = 4
    /\ Depth(Emitted[1]) > Depth(Emitted[2])
    /\ Depth(Emitted[2]) = Depth(Emitted[3])
    /\ Depth(Emitted[3]) < Depth(Emitted[4])

----------------------------------------------------------------------------
\* Properties of the decoding of keys in get_key_for_node (Spec)

\* The root and every key on the path from the root to node n decode as text.
PathDecodes(n) ==
    \A m \in TreeNodes : IsAncestorOrSelf(m, n) => Decodes(KeyAt(m))

\* The keys of a list of nodes, as the tree defines them.
KeysAt(node_numbers) ==
    [i \in 1..Len(node_numbers) |->
        ChannelTreeNode(node_numbers[i], KeyAt(node_numbers[i]))]

----------------------------------------------------------------------------
\* Properties of the caller's list across calls of gen_secrets (SpecSecrets)

\* The number of calls made on the list so far.
ExtraZeros == Len(channels) - Len(given)

\* C29: each call of gen_secrets appends exactly one 0 to the caller's list
\* and changes nothing else in it; after k calls on the same list object the
\* list is the original one followed by k zeros, while the channel keys of
\* every bundle emitted are still the original channels and 0.
C29_ListGrowsByOneZero ==
    /\ [][/\ channels' = Append(channels, 0)
          /\ secrets' # <<>>]_vars
    /\ [](/\ ExtraZeros >= 0
          /\ SubSeq(channels, 1, Len(given)) = given
          /\ \A i \in (Len(given) + 1)..Len(channels) : channels[i] = 0
          /\ Generated <=> ExtraZeros >= 1
          /\ Generated =>
                {int(k) : k \in DOMAIN secrets.channels}
                    = Elements(given) \cup {0})

\* gen_secrets was called MaxCalls times on a list of two channels, neither
\* of them 0: the list holds MaxCalls zeros more, the bundle three keys.
C29_Witness ==
    /\ Generated
    /\ Len(given) = 2
    /\ given[1] # given[2]
    /\ 0 \notin Elements(given)
    /\ ExtraZeros = MaxCalls
    /\ Cardinality(DOMAIN secrets.channels) = 3

----------------------------------------------------------------------------
\* Properties of get_frame_key_from_cover on any list (SpecLookup)

\* Node number n is m or an ancestor of m in the heap numbering, for nodes
\* of the tree and below it; node 1 is the topmost ancestor.
AncestorOrSelfOf(n, m) ==
    n >= 1 /\ \E k \in 0..(Height + 2) : m \div (2 ^ k) = n

\* The key reached from the key of node n by the left/right subkey steps
\* along the path from n down to its descendant m.
RECURSIVE SubkeyAlong(_, _, _)
SubkeyAlong(key, n, m) ==
    IF m = n THEN key
    ELSE IF m % 2 = 0 THEN get_left_subkey(SubkeyAlong(key, n, m \div 2))
    ELSE get_right_subkey(SubkeyAlong(key, n, m \div 2))

\* The positions of the list whose node is the target or an ancestor of it.
ListedAncestors(nodes, target) ==
    {i \in 1..Len(nodes) : AncestorOrSelfOf(nodes[i].node_num, target)}

\* The deepest listed ancestor: the largest node number, and the first
\* position of the list that holds it.
DeepestListed(nodes, target) ==
    LET A == ListedAncestors(nodes, target)
        deepest == MaxOfSet({nodes[i].node_num : i \in A})
    IN  nodes[MinOfSet({i \in A : nodes[i].node_num = deepest})]

====
